---- MODULE Spec2Model ----
(***************************************************************************)
(* Button-debounce state machine of the CWSW board support package.        *)
(*                                                                         *)
(* Time is counted in periods of the re-trigger alarm Btn_tmr_ButtonRead   *)
(* (tmr10ms): the clock advances by one unit for every run of the button   *)
(* task, and freely while the alarm is disabled.                           *)
(***************************************************************************)
EXTENDS Integers, Sequences, FiniteSets, TLC

\* ---- bounds of the model ------------------------------------------------
\* number of buttons served by the task (kBoardNumButtons on the GTK board)
NumButtons == 2
\* debounce timeout in alarm periods (kTmButtonDebounceTime, 60 in the source)
DebounceTime == 9
\* stuck-button timeout in alarm periods (kButtonStuckTimeoutValue, 3000 in the source)
StuckTime == 2
\* last value of the clock that is explored
MaxClock == 50
\* number of UI callbacks (button presses and releases) explored in a run
MaxUiEvents == 2

Buttons == 0 .. (NumButtons - 1)

\* ---- program constants --------------------------------------------------
kReasonNone == 0
kReasonTwitchNoted == 1
kReasonDebounced == 2
kReasonTimeout == 3
kReasonButtonUnstuck == 4

kStateUninit == 0
kStateOperational == 1
kStateExit == 2
kStateFinished == 3

\* event ids; ev0 is the numeric id 0 ("no event")
ev0 == "ev0"
evButton_Task == "evButton_Task"
evBntPressed == "evBntPressed"
evBtnReleased == "evBtnReleased"
evButton_BtnStuck == "evButton_BtnStuck"
evButton_BtnUnstuck == "evButton_BtnUnstuck"

\* state-handler pointers (the identities the transition table compares) and the null pointer
NULL == "NULL"
fp_stStart == "fp_stStart"
fp_stButtonReleased == "fp_stButtonReleased"
fp_stDebouncePress == "fp_stDebouncePress"
fp_stButtonPressed == "fp_stButtonPressed"
fp_stDebounceRelease == "fp_stDebounceRelease"
fp_stButtonStuck == "fp_stButtonStuck"
States == {fp_stStart, fp_stButtonReleased, fp_stDebouncePress, fp_stButtonPressed, fp_stDebounceRelease, fp_stButtonStuck}

kTmrState_Enabled == "kTmrState_Enabled"
kTmrState_Disabled == "kTmrState_Disabled"

fp_NullTransition == "fp_NullTransition"
fp_NotifyBtnStateChg == "fp_NotifyBtnStateChg"

VARIABLES
  now,                    \* Cwsw_Clock, in alarm periods
  tmrstate,               \* Btn_tmr_ButtonRead.tmrstate
  currentstate,           \* Btn_tsk_ButtonRead: currentstate[]
  start_statephase,       \* stStart: statephase[]
  start_evId,             \* stStart: evId[]
  released_statephase,    \* stButtonReleased: statephase[]
  debounce_statephase,    \* stDebounceButton: statephase[]
  tmrMyStateTimer,        \* stDebounceButton: tmrMyStateTimer[]
  debounce_evId,          \* stDebounceButton: evId[]
  debounce_reason3,       \* stDebounceButton: reason3[]
  read_bits,              \* stDebounceButton: read_bits[]
  pressed_statephase,     \* stButtonPressed: statephase[]
  tmrPressedStateTimer,   \* stButtonPressed: tmrPressedStateTimer[]
  pressed_evId,           \* stButtonPressed: evId[]
  pressed_reason2,        \* stButtonPressed: reason2[]
  pressed_reason3,        \* stButtonPressed: reason3[]
  stuck_statephase,       \* stButtonStuck: statephase[]
  stuck_evId,             \* stButtonStuck: evId[]
  buttoninputbits,        \* DI layer: buttoninputbits[]
  buttonstatus,           \* DI layer: buttonstatus bitmap
  calls,                  \* observation: what the latest task run did for each button
  posts,                  \* observation: events handed to PostEvent by the latest task run
  uiCount,                \* observation: number of UI callbacks so far
  visit,                  \* observation: operate cycles and 1 bits of each button's latest debounce visit
  probe                   \* input and result of a function applied on its own

memVars == <<now, tmrstate, currentstate, start_statephase, start_evId, released_statephase,
             debounce_statephase, tmrMyStateTimer, debounce_evId, debounce_reason3, read_bits,
             pressed_statephase, tmrPressedStateTimer, pressed_evId, pressed_reason2,
             pressed_reason3, stuck_statephase, stuck_evId, buttoninputbits, buttonstatus>>
obsVars == <<calls, posts, visit>>
vars == <<memVars, obsVars, uiCount, probe>>

\* the memory the task works on, as one record
Mem ==
  [now |-> now, tmrstate |-> tmrstate, currentstate |-> currentstate,
   start_statephase |-> start_statephase, start_evId |-> start_evId,
   released_statephase |-> released_statephase,
   debounce_statephase |-> debounce_statephase, tmrMyStateTimer |-> tmrMyStateTimer,
   debounce_evId |-> debounce_evId, debounce_reason3 |-> debounce_reason3,
   read_bits |-> read_bits,
   pressed_statephase |-> pressed_statephase, tmrPressedStateTimer |-> tmrPressedStateTimer,
   pressed_evId |-> pressed_evId, pressed_reason2 |-> pressed_reason2,
   pressed_reason3 |-> pressed_reason3,
   stuck_statephase |-> stuck_statephase, stuck_evId |-> stuck_evId,
   buttoninputbits |-> buttoninputbits, buttonstatus |-> buttonstatus]

Pow2(n) == 2 ^ n

\* ---- clock service ------------------------------------------------------
\* Set(Cwsw_Clock, tmr, duration): the timer holds its expiry time
SetTimer(m, duration) == m.now + duration
\* TM(tmr): no time is left on the timer
TM(m, tmr) == tmr - m.now <= 0

\* ---- DI layer -----------------------------------------------------------
BIT_TEST(bitmap, idx) == (bitmap \div Pow2(idx)) % 2 = 1
BIT_SET(bitmap, idx) == IF BIT_TEST(bitmap, idx) THEN bitmap ELSE bitmap + Pow2(idx)
BIT_CLR(bitmap, idx) == IF BIT_TEST(bitmap, idx) THEN bitmap - Pow2(idx) ELSE bitmap

\* (variant that removes two bits per call)
di_read_skipping(m, idx) ==
  LET retval == (m.buttoninputbits[idx] % 2) # 0
      rest == m.buttoninputbits[idx] \div 4
      m1 == [m EXCEPT !.buttoninputbits[idx] = rest]
      final == IF (~retval) /\ (rest = 0) THEN BIT_TEST(m.buttonstatus, idx) ELSE retval
  IN [bit |-> IF final THEN 1 ELSE 0, m |-> m1]
\* (variant without the fallback to the status bitmap)
di_read_no_fallback(m, idx) ==
  [bit |-> m.buttoninputbits[idx] % 2,
   m |-> [m EXCEPT !.buttoninputbits[idx] = m.buttoninputbits[idx] \div 2]]
\* di_read_next_button_input_bit(idx): the bit returned (0 or 1) and the memory left
di_read_next_button_input_bit(m, idx) ==
  LET retval == (m.buttoninputbits[idx] % 2) # 0
      rest == m.buttoninputbits[idx] \div 2
      m1 == [m EXCEPT !.buttoninputbits[idx] = rest]
      final == IF (~retval) /\ (rest = 0) THEN BIT_TEST(m.buttonstatus, idx) ELSE retval
  IN [bit |-> IF final THEN 1 ELSE 0, m |-> m1]


\* ---- state functions ----------------------------------------------------
\* An event is a record [evId, evData]; NullEv and NullExtra stand for null pointers.
NullEv == [evId |-> "nullptr", evData |-> 0]
NullExtra == 0 - 1
\* the phase reported for a call that returned at the null-pointer guard
NoPhase == 0 - 1

\* what one invocation of a state function leaves behind: the memory, the event and the
\* guard value behind the two pointers, the returned status, and for observation the
\* phase value the switch saw and the reads made (stream index and bit returned)
Ret(m, ev, extra, rc, phase, reads) ==
  [m |-> m, ev |-> ev, extra |-> extra, rc |-> rc, phase |-> phase, reads |-> reads]
Read(src, bit) == <<[src |-> src, bit |-> bit]>>

\* the value the accumulator is seeded with on entry to a debounce state
DebounceSeedZero == 1 - 1
\* (variant: the accumulator seeded with two 1 bits)
DebounceSeedTwoBits == 1 + 2
DebounceSeed == 1

\* the accumulator after one more bit: uint8 shift left, OR the bit in
ShiftInNoWrap(acc, bit) == acc * 2 + bit
ShiftIn(acc, bit) ==
  LET shifted == (acc * 2) % 256
  IN IF bit = 1 /\ shifted % 2 = 0 THEN shifted + 1 ELSE shifted

\* (variant that tests the timer before the accumulator)
stDebounceTimerFirst(m, pev, pextra) ==
  IF pev = NullEv THEN Ret(m, pev, pextra, 0, NoPhase, <<>>)
  ELSE IF pextra = NullExtra THEN Ret(m, pev, pextra, 0, NoPhase, <<>>)
  ELSE
  LET thisbutton == pev.evData
      phase == m.debounce_statephase[thisbutton]
      m0 == [m EXCEPT !.debounce_statephase[thisbutton] = phase + 1]
  IN CASE phase = kStateOperational ->
            LET rd == di_read_next_button_input_bit(m0, thisbutton)
                tmrdebounce == m0.tmrMyStateTimer[thisbutton]
                bits == ShiftIn(m0.read_bits[thisbutton], rd.bit)
                m1 == [rd.m EXCEPT !.read_bits[thisbutton] = bits]
                m2 == IF TM(m1, tmrdebounce)
                        THEN [m1 EXCEPT !.debounce_reason3[thisbutton] = kReasonTimeout]
                      ELSE IF bits = 0
                        THEN [m1 EXCEPT !.debounce_evId[thisbutton] = evBtnReleased,
                                        !.debounce_reason3[thisbutton] = kReasonDebounced]
                      ELSE IF bits = 255
                        THEN [m1 EXCEPT !.debounce_evId[thisbutton] = evBntPressed,
                                        !.debounce_reason3[thisbutton] = kReasonDebounced]
                      ELSE [m1 EXCEPT !.debounce_statephase[thisbutton] = @ - 1]
            IN Ret(m2, pev, pextra, m2.debounce_statephase[thisbutton], phase, Read(thisbutton, rd.bit))
       [] phase = kStateExit ->
            Ret(m0, [evId |-> m0.debounce_evId[thisbutton], evData |-> thisbutton],
                m0.debounce_reason3[thisbutton],
                m0.debounce_statephase[thisbutton], phase, <<>>)
       [] OTHER ->
            LET m1 == [m0 EXCEPT !.debounce_evId[thisbutton] = pev.evId,
                                 !.debounce_statephase[thisbutton] = kStateOperational,
                                 !.read_bits[thisbutton] = DebounceSeed,
                                 !.tmrMyStateTimer[thisbutton] = SetTimer(m0, DebounceTime)]
            IN Ret(m1, pev, pextra, m1.debounce_statephase[thisbutton], phase, <<>>)

\* (variant whose operate phase never tests the debounce timer)
stDebounceNoTimeout(m, pev, pextra) ==
  IF pev = NullEv THEN Ret(m, pev, pextra, 0, NoPhase, <<>>)
  ELSE IF pextra = NullExtra THEN Ret(m, pev, pextra, 0, NoPhase, <<>>)
  ELSE
  LET thisbutton == pev.evData
      phase == m.debounce_statephase[thisbutton]
      m0 == [m EXCEPT !.debounce_statephase[thisbutton] = phase + 1]
  IN CASE phase = kStateOperational ->
            LET rd == di_read_next_button_input_bit(m0, thisbutton)
                tmrdebounce == m0.tmrMyStateTimer[thisbutton]
                bits == ShiftIn(m0.read_bits[thisbutton], rd.bit)
                m1 == [rd.m EXCEPT !.read_bits[thisbutton] = bits]
                m2 == IF bits = 0
                        THEN [m1 EXCEPT !.debounce_evId[thisbutton] = evBtnReleased,
                                        !.debounce_reason3[thisbutton] = kReasonDebounced]
                      ELSE IF bits = 255
                        THEN [m1 EXCEPT !.debounce_evId[thisbutton] = evBntPressed,
                                        !.debounce_reason3[thisbutton] = kReasonDebounced]
                      ELSE [m1 EXCEPT !.debounce_statephase[thisbutton] = @ - 1]
            IN Ret(m2, pev, pextra, m2.debounce_statephase[thisbutton], phase, Read(thisbutton, rd.bit))
       [] phase = kStateExit ->
            Ret(m0, [evId |-> m0.debounce_evId[thisbutton], evData |-> thisbutton],
                m0.debounce_reason3[thisbutton],
                m0.debounce_statephase[thisbutton], phase, <<>>)
       [] OTHER ->
            LET m1 == [m0 EXCEPT !.debounce_evId[thisbutton] = pev.evId,
                                 !.debounce_statephase[thisbutton] = kStateOperational,
                                 !.read_bits[thisbutton] = DebounceSeed,
                                 !.tmrMyStateTimer[thisbutton] = SetTimer(m0, DebounceTime)]
            IN Ret(m1, pev, pextra, m1.debounce_statephase[thisbutton], phase, <<>>)

\* stDebounceButton: the state function shared by DebouncePress and DebounceRelease
stDebounceButton(m, pev, pextra) ==
  IF pev = NullEv THEN Ret(m, pev, pextra, 0, NoPhase, <<>>)
  ELSE IF pextra = NullExtra THEN Ret(m, pev, pextra, 0, NoPhase, <<>>)
  ELSE
  LET thisbutton == pev.evData
      phase == m.debounce_statephase[thisbutton]
      m0 == [m EXCEPT !.debounce_statephase[thisbutton] = phase + 1]
  IN CASE phase = kStateOperational ->
            LET rd == di_read_next_button_input_bit(m0, thisbutton)
                tmrdebounce == m0.tmrMyStateTimer[thisbutton]
                bits == ShiftIn(m0.read_bits[thisbutton], rd.bit)
                m1 == [rd.m EXCEPT !.read_bits[thisbutton] = bits]
                m2 == IF bits = 0
                        THEN [m1 EXCEPT !.debounce_evId[thisbutton] = evBtnReleased,
                                        !.debounce_reason3[thisbutton] = kReasonDebounced]
                      ELSE IF bits = 255
                        THEN [m1 EXCEPT !.debounce_evId[thisbutton] = evBntPressed,
                                        !.debounce_reason3[thisbutton] = kReasonDebounced]
                      ELSE IF TM(m1, tmrdebounce)
                        THEN [m1 EXCEPT !.debounce_reason3[thisbutton] = kReasonTimeout]
                      ELSE [m1 EXCEPT !.debounce_statephase[thisbutton] = @ - 1]
            IN Ret(m2, pev, pextra, m2.debounce_statephase[thisbutton], phase, Read(thisbutton, rd.bit))
       [] phase = kStateExit ->
            Ret(m0, [evId |-> m0.debounce_evId[thisbutton], evData |-> thisbutton],
                m0.debounce_reason3[thisbutton],
                m0.debounce_statephase[thisbutton], phase, <<>>)
       [] OTHER ->
            LET m1 == [m0 EXCEPT !.debounce_evId[thisbutton] = pev.evId,
                                 !.debounce_statephase[thisbutton] = kStateOperational,
                                 !.read_bits[thisbutton] = DebounceSeed,
                                 !.tmrMyStateTimer[thisbutton] = SetTimer(m0, DebounceTime)]
            IN Ret(m1, pev, pextra, m1.debounce_statephase[thisbutton], phase, <<>>)

\* (variant without the two null-pointer guards)
stStartUnguarded(m, pev, pextra) ==
  LET thisbutton == pev.evData
      phase == m.start_statephase[thisbutton]
      m0 == [m EXCEPT !.start_statephase[thisbutton] = phase + 1]
  IN CASE phase = kStateOperational ->
            Ret(m0, pev, pextra, m0.start_statephase[thisbutton], phase, <<>>)
       [] phase = kStateExit ->
            Ret(m0, [evId |-> m0.start_evId[thisbutton], evData |-> thisbutton], kReasonNone,
                m0.start_statephase[thisbutton], phase, <<>>)
       [] OTHER ->
            LET m1 == [m0 EXCEPT !.start_statephase[thisbutton] = kStateOperational,
                                 !.start_evId[thisbutton] = pev.evId]
            IN Ret(m1, pev, pextra, m1.start_statephase[thisbutton], phase, <<>>)

\* (variant that leaves with reason TwitchNoted)
stStartTwitch(m, pev, pextra) ==
  IF pev = NullEv THEN Ret(m, pev, pextra, 0, NoPhase, <<>>)
  ELSE IF pextra = NullExtra THEN Ret(m, pev, pextra, 0, NoPhase, <<>>)
  ELSE
  LET thisbutton == pev.evData
      phase == m.start_statephase[thisbutton]
      m0 == [m EXCEPT !.start_statephase[thisbutton] = phase + 1]
  IN CASE phase = kStateOperational ->
            Ret(m0, pev, pextra, m0.start_statephase[thisbutton], phase, <<>>)
       [] phase = kStateExit ->
            Ret(m0, [evId |-> m0.start_evId[thisbutton], evData |-> thisbutton], kReasonTwitchNoted,
                m0.start_statephase[thisbutton], phase, <<>>)
       [] OTHER ->
            LET m1 == [m0 EXCEPT !.start_statephase[thisbutton] = kStateOperational,
                                 !.start_evId[thisbutton] = pev.evId]
            IN Ret(m1, pev, pextra, m1.start_statephase[thisbutton], phase, <<>>)

stStart(m, pev, pextra) ==
  IF pev = NullEv THEN Ret(m, pev, pextra, 0, NoPhase, <<>>)
  ELSE IF pextra = NullExtra THEN Ret(m, pev, pextra, 0, NoPhase, <<>>)
  ELSE
  LET thisbutton == pev.evData
      phase == m.start_statephase[thisbutton]
      m0 == [m EXCEPT !.start_statephase[thisbutton] = phase + 1]
  IN CASE phase = kStateOperational ->
            Ret(m0, pev, pextra, m0.start_statephase[thisbutton], phase, <<>>)
       [] phase = kStateExit ->
            Ret(m0, [evId |-> m0.start_evId[thisbutton], evData |-> thisbutton], kReasonNone,
                m0.start_statephase[thisbutton], phase, <<>>)
       [] OTHER ->
            LET m1 == [m0 EXCEPT !.start_statephase[thisbutton] = kStateOperational,
                                 !.start_evId[thisbutton] = pev.evId]
            IN Ret(m1, pev, pextra, m1.start_statephase[thisbutton], phase, <<>>)

\* (variant that stays on a 1 bit and leaves on a 0 bit)
stButtonReleasedInverted(m, pev, pextra) ==
  IF pev = NullEv THEN Ret(m, pev, pextra, 0, NoPhase, <<>>)
  ELSE IF pextra = NullExtra THEN Ret(m, pev, pextra, 0, NoPhase, <<>>)
  ELSE
  LET thisbutton == pev.evData
      phase == m.released_statephase[thisbutton]
      m0 == [m EXCEPT !.released_statephase[thisbutton] = phase + 1]
  IN CASE phase = kStateOperational ->
            LET rd == di_read_next_button_input_bit(m0, thisbutton)
                m1 == IF rd.bit = 1
                        THEN [rd.m EXCEPT !.released_statephase[thisbutton] = @ - 1]
                      ELSE rd.m
            IN Ret(m1, pev, pextra, m1.released_statephase[thisbutton], phase, Read(thisbutton, rd.bit))
       [] phase = kStateExit ->
            Ret(m0, [evId |-> pev.evId, evData |-> thisbutton], kReasonTwitchNoted,
                m0.released_statephase[thisbutton], phase, <<>>)
       [] OTHER ->
            LET m1 == [m0 EXCEPT !.released_statephase[thisbutton] = kStateOperational]
            IN Ret(m1, pev, pextra, m1.released_statephase[thisbutton], phase, <<>>)

stButtonReleased(m, pev, pextra) ==
  IF pev = NullEv THEN Ret(m, pev, pextra, 0, NoPhase, <<>>)
  ELSE IF pextra = NullExtra THEN Ret(m, pev, pextra, 0, NoPhase, <<>>)
  ELSE
  LET thisbutton == pev.evData
      phase == m.released_statephase[thisbutton]
      m0 == [m EXCEPT !.released_statephase[thisbutton] = phase + 1]
  IN CASE phase = kStateOperational ->
            LET rd == di_read_next_button_input_bit(m0, thisbutton)
                m1 == IF rd.bit = 0
                        THEN [rd.m EXCEPT !.released_statephase[thisbutton] = @ - 1]
                      ELSE rd.m
            IN Ret(m1, pev, pextra, m1.released_statephase[thisbutton], phase, Read(thisbutton, rd.bit))
       [] phase = kStateExit ->
            Ret(m0, [evId |-> pev.evId, evData |-> thisbutton], kReasonTwitchNoted,
                m0.released_statephase[thisbutton], phase, <<>>)
       [] OTHER ->
            LET m1 == [m0 EXCEPT !.released_statephase[thisbutton] = kStateOperational]
            IN Ret(m1, pev, pextra, m1.released_statephase[thisbutton], phase, <<>>)

stDebouncePress(m, pev, pextra) == stDebounceButton(m, pev, pextra)

\* the second event field written when the stuck timer expires
PressedTimeoutReason2(thisbutton) == 0

\* (variant that tests the stuck timer before the bit)
stButtonPressedTimerFirst(m, pev, pextra) ==
  IF pev = NullEv THEN Ret(m, pev, pextra, 0, NoPhase, <<>>)
  ELSE IF pextra = NullExtra THEN Ret(m, pev, pextra, 0, NoPhase, <<>>)
  ELSE
  LET thisbutton == pev.evData
      phase == m.pressed_statephase[thisbutton]
      m0 == [m EXCEPT !.pressed_statephase[thisbutton] = phase + 1]
  IN CASE phase = kStateOperational ->
            LET tmrPressed == m0.tmrPressedStateTimer[thisbutton]
                rd == di_read_next_button_input_bit(m0, thisbutton)
                m1 == IF TM(rd.m, tmrPressed)
                        THEN [rd.m EXCEPT !.pressed_reason2[thisbutton] = PressedTimeoutReason2(thisbutton),
                                          !.pressed_reason3[thisbutton] = kReasonTimeout]
                      ELSE IF rd.bit = 0
                        THEN [rd.m EXCEPT !.pressed_reason2[thisbutton] = thisbutton,
                                          !.pressed_reason3[thisbutton] = kReasonTwitchNoted]
                      ELSE [rd.m EXCEPT !.pressed_statephase[thisbutton] = @ - 1]
            IN Ret(m1, pev, pextra, m1.pressed_statephase[thisbutton], phase, Read(thisbutton, rd.bit))
       [] phase = kStateExit ->
            Ret(m0, [evId |-> m0.pressed_evId[thisbutton], evData |-> m0.pressed_reason2[thisbutton]],
                m0.pressed_reason3[thisbutton],
                m0.pressed_statephase[thisbutton], phase, <<>>)
       [] OTHER ->
            LET m1 == [m0 EXCEPT !.pressed_evId[thisbutton] = pev.evId,
                                 !.pressed_reason3[thisbutton] = kReasonNone,
                                 !.pressed_statephase[thisbutton] = kStateOperational,
                                 !.tmrPressedStateTimer[thisbutton] = SetTimer(m0, StuckTime)]
            IN Ret(m1, pev, pextra, m1.pressed_statephase[thisbutton], phase, <<>>)

stButtonPressed(m, pev, pextra) ==
  IF pev = NullEv THEN Ret(m, pev, pextra, 0, NoPhase, <<>>)
  ELSE IF pextra = NullExtra THEN Ret(m, pev, pextra, 0, NoPhase, <<>>)
  ELSE
  LET thisbutton == pev.evData
      phase == m.pressed_statephase[thisbutton]
      m0 == [m EXCEPT !.pressed_statephase[thisbutton] = phase + 1]
  IN CASE phase = kStateOperational ->
            LET tmrPressed == m0.tmrPressedStateTimer[thisbutton]
                rd == di_read_next_button_input_bit(m0, thisbutton)
                m1 == IF rd.bit = 0
                        THEN [rd.m EXCEPT !.pressed_reason2[thisbutton] = thisbutton,
                                          !.pressed_reason3[thisbutton] = kReasonTwitchNoted]
                      ELSE IF TM(rd.m, tmrPressed)
                        THEN [rd.m EXCEPT !.pressed_reason2[thisbutton] = PressedTimeoutReason2(thisbutton),
                                          !.pressed_reason3[thisbutton] = kReasonTimeout]
                      ELSE [rd.m EXCEPT !.pressed_statephase[thisbutton] = @ - 1]
            IN Ret(m1, pev, pextra, m1.pressed_statephase[thisbutton], phase, Read(thisbutton, rd.bit))
       [] phase = kStateExit ->
            Ret(m0, [evId |-> m0.pressed_evId[thisbutton], evData |-> m0.pressed_reason2[thisbutton]],
                m0.pressed_reason3[thisbutton],
                m0.pressed_statephase[thisbutton], phase, <<>>)
       [] OTHER ->
            LET m1 == [m0 EXCEPT !.pressed_evId[thisbutton] = pev.evId,
                                 !.pressed_reason3[thisbutton] = kReasonNone,
                                 !.pressed_statephase[thisbutton] = kStateOperational,
                                 !.tmrPressedStateTimer[thisbutton] = SetTimer(m0, StuckTime)]
            IN Ret(m1, pev, pextra, m1.pressed_statephase[thisbutton], phase, <<>>)

stDebounceRelease(m, pev, pextra) == stDebounceButton(m, pev, pextra)

\* the stream stButtonStuck reads its bit from
StuckReadIndex(thisbutton) == 0

stButtonStuck(m, pev, pextra) ==
  IF pev = NullEv THEN Ret(m, pev, pextra, 0, NoPhase, <<>>)
  ELSE IF pextra = NullExtra THEN Ret(m, pev, pextra, 0, NoPhase, <<>>)
  ELSE
  LET thisbutton == pev.evData
      phase == m.stuck_statephase[thisbutton]
      m0 == [m EXCEPT !.stuck_statephase[thisbutton] = phase + 1]
  IN CASE phase = kStateOperational ->
            LET rd == di_read_next_button_input_bit(m0, StuckReadIndex(thisbutton))
                m1 == IF rd.bit = 1
                        THEN [rd.m EXCEPT !.stuck_statephase[thisbutton] = @ - 1]
                      ELSE rd.m
            IN Ret(m1, pev, pextra, m1.stuck_statephase[thisbutton], phase,
                   Read(StuckReadIndex(thisbutton), rd.bit))
       [] phase = kStateExit ->
            Ret(m0, [evId |-> m0.stuck_evId[thisbutton], evData |-> thisbutton],
                kReasonButtonUnstuck,
                m0.stuck_statephase[thisbutton], phase, <<>>)
       [] OTHER ->
            \* the entry branch does not reinitialize the phase marker
            LET m1 == [m0 EXCEPT !.stuck_evId[thisbutton] = pev.evId]
            IN Ret(m1, pev, pextra, m1.stuck_statephase[thisbutton], phase, <<>>)

\* call through a state-handler pointer
CallState(handler, m, pev, pextra) ==
  CASE handler = fp_stStart -> stStart(m, pev, pextra)
    [] handler = fp_stButtonReleased -> stButtonReleased(m, pev, pextra)
    [] handler = fp_stDebouncePress -> stDebouncePress(m, pev, pextra)
    [] handler = fp_stButtonPressed -> stButtonPressed(m, pev, pextra)
    [] handler = fp_stDebounceRelease -> stDebounceRelease(m, pev, pextra)
    [] handler = fp_stButtonStuck -> stButtonStuck(m, pev, pextra)


\* ---- transition functions -----------------------------------------------
\* each returns the events it hands to Cwsw_EvQX__PostEvent
NullTransition(ev, extra) == <<>>

\* (variant without the validation of the event id under kReasonDebounced)
NotifyUnvalidated(ev, extra) ==
  LET id == CASE extra = kReasonDebounced -> ev.evId
              [] extra = kReasonTimeout -> evButton_BtnStuck
              [] extra = kReasonButtonUnstuck -> evButton_BtnUnstuck
              [] OTHER -> ev0
  IN IF id # ev0 THEN <<[evId |-> id, evData |-> ev.evData]>> ELSE <<>>
\* (variant that posts nothing on kReasonTimeout)
NotifyNoStuck(ev, extra) ==
  LET id == CASE extra = kReasonDebounced ->
                   (IF ev.evId \in {evBtnReleased, evBntPressed} THEN ev.evId ELSE ev0)
              [] extra = kReasonButtonUnstuck -> evButton_BtnUnstuck
              [] OTHER -> ev0
  IN IF id # ev0 THEN <<[evId |-> id, evData |-> ev.evData]>> ELSE <<>>

NotifyBtnStateChg(ev, extra) ==
  LET id == CASE extra = kReasonDebounced ->
                   (IF ev.evId \in {evBtnReleased, evBntPressed} THEN ev.evId ELSE ev0)
              [] extra = kReasonTimeout -> evButton_BtnStuck
              [] extra = kReasonButtonUnstuck -> evButton_BtnUnstuck
              [] OTHER -> ev0
  IN IF id # ev0 THEN <<[evId |-> id, evData |-> ev.evData]>> ELSE <<>>

CallTransition(fn, ev, extra) ==
  CASE fn = fp_NullTransition -> NullTransition(ev, extra)
    [] fn = fp_NotifyBtnStateChg -> NotifyBtnStateChg(ev, extra)

Row(cur, r1, r2, r3, nxt, fn) ==
  [pfCurrent |-> cur, reason1 |-> r1, reason2 |-> r2, reason3 |-> r3, pfNext |-> nxt, pfTransition |-> fn]

\* (variant in which the DebouncePress row for a debounced 0 notifies too)
tblTransitionsNotifyAll ==
  << Row(fp_stStart,           evButton_Task, 255, kReasonNone,          fp_stButtonReleased,  fp_NullTransition),
     Row(fp_stButtonReleased,  evButton_Task, 255, kReasonTwitchNoted,   fp_stDebouncePress,   fp_NullTransition),
     Row(fp_stDebouncePress,   evBntPressed,  255, kReasonDebounced,     fp_stButtonPressed,   fp_NotifyBtnStateChg),
     Row(fp_stDebouncePress,   evBtnReleased, 255, kReasonDebounced,     fp_stButtonReleased,  fp_NotifyBtnStateChg),
     Row(fp_stDebouncePress,   evButton_Task, 255, kReasonTimeout,       fp_stButtonReleased,  fp_NullTransition),
     Row(fp_stButtonPressed,   evButton_Task, 255, kReasonTwitchNoted,   fp_stDebounceRelease, fp_NullTransition),
     Row(fp_stButtonPressed,   evButton_Task, 255, kReasonTimeout,       fp_stButtonStuck,     fp_NotifyBtnStateChg),
     Row(fp_stDebounceRelease, evBtnReleased, 255, kReasonDebounced,     fp_stButtonReleased,  fp_NotifyBtnStateChg),
     Row(fp_stDebounceRelease, evBntPressed,  255, kReasonDebounced,     fp_stButtonPressed,   fp_NullTransition),
     Row(fp_stButtonStuck,     evButton_Task, 255, kReasonButtonUnstuck, fp_stButtonReleased,  fp_NotifyBtnStateChg) >>

tblTransitions ==
  << Row(fp_stStart,           evButton_Task, 255, kReasonNone,          fp_stButtonReleased,  fp_NullTransition),
     Row(fp_stButtonReleased,  evButton_Task, 255, kReasonTwitchNoted,   fp_stDebouncePress,   fp_NullTransition),
     Row(fp_stDebouncePress,   evBntPressed,  255, kReasonDebounced,     fp_stButtonPressed,   fp_NotifyBtnStateChg),
     Row(fp_stDebouncePress,   evBtnReleased, 255, kReasonDebounced,     fp_stButtonReleased,  fp_NullTransition),
     Row(fp_stDebouncePress,   evButton_Task, 255, kReasonTimeout,       fp_stButtonReleased,  fp_NullTransition),
     Row(fp_stButtonPressed,   evButton_Task, 255, kReasonTwitchNoted,   fp_stDebounceRelease, fp_NullTransition),
     Row(fp_stButtonPressed,   evButton_Task, 255, kReasonTimeout,       fp_stButtonStuck,     fp_NotifyBtnStateChg),
     Row(fp_stDebounceRelease, evBtnReleased, 255, kReasonDebounced,     fp_stButtonReleased,  fp_NotifyBtnStateChg),
     Row(fp_stDebounceRelease, evBntPressed,  255, kReasonDebounced,     fp_stButtonPressed,   fp_NullTransition),
     Row(fp_stButtonStuck,     evButton_Task, 255, kReasonButtonUnstuck, fp_stButtonReleased,  fp_NotifyBtnStateChg) >>

\* ---- state-machine engine (external service) ----------------------------
\* a row matches the current handler, the event id, and the reason code under its mask
RowMatches(row, cur, ev, extra) ==
  /\ row.pfCurrent = cur
  /\ row.reason1 = ev.evId
  /\ (extra % (row.reason2 + 1)) = row.reason3

\* index of the first matching row in table order, 0 when no row matches
Cwsw_Sme_FindNextState(tbl, cur, ev, extra) ==
  LET hits == {i \in 1 .. Len(tbl) : RowMatches(tbl[i], cur, ev, extra)}
  IN IF hits = {} THEN 0 ELSE CHOOSE i \in hits : \A j \in hits : i <= j

\* the state signals completion with the terminal status
StateCompleted(rc) == rc = kStateFinished

\* Cwsw_Sme__SME: invoke the current handler; when it signals completion look up the
\* exit triple, run the row's transition function and return the row's next state,
\* or NULL when no row matches
\* (r: what the handler's call left; idx: the row found for its exit triple)
SmeResult(tbl, cur, r, idx) ==
  IF StateCompleted(r.rc)
    THEN IF idx = 0
           THEN [m |-> r.m, next |-> NULL, posted |-> <<>>, call |-> r]
           ELSE [m |-> r.m, next |-> tbl[idx].pfNext,
                 posted |-> CallTransition(tbl[idx].pfTransition, r.ev, r.extra), call |-> r]
    ELSE [m |-> r.m, next |-> cur, posted |-> <<>>, call |-> r]
SmeLookup(tbl, cur, r) == SmeResult(tbl, cur, r, Cwsw_Sme_FindNextState(tbl, cur, r.ev, r.extra))
Cwsw_Sme__SME(tbl, m, cur, ev, extra) == SmeLookup(tbl, cur, CallState(cur, m, ev, extra))


\* ---- button task --------------------------------------------------------
\* observation record of one SME call made by the task: the handler called, the phase
\* its switch saw, the reads it made, its status, the event and guard value it left,
\* the state the SME returned, and the clock at the call
Obs(cur, r, next, at) ==
  [state |-> cur, phase |-> r.phase, reads |-> r.reads, rc |-> r.rc,
   ev |-> r.ev, extra |-> r.extra, next |-> next, at |-> at]
NoCall ==
  [state |-> NULL, phase |-> NoPhase, reads |-> <<>>, rc |-> 0,
   ev |-> NullEv, extra |-> NullExtra, next |-> NULL, at |-> 0]

\* events tagged with the button whose SME call posted them
Tagged(evs, idx) == [i \in 1 .. Len(evs) |-> [evId |-> evs[i].evId, evData |-> evs[i].evData, button |-> idx]]

\* (variant that never disables the alarm)
AlarmKept(tmr, next) == tmr
\* the alarm state after the SME returned next for one button
AlarmAfter(tmr, next) == IF next = NULL THEN kTmrState_Disabled ELSE tmr

\* the task's handling of one button: default a null state to stStart, run the SME,
\* persist the returned state, disable the alarm when it is null
\* (cur: the state served; r: what the SME call returned)
TaskAfter(acc, idx, cur, r) ==
  [m |-> [r.m EXCEPT !.currentstate[idx] = r.next, !.tmrstate = AlarmAfter(@, r.next)],
   calls |-> [acc.calls EXCEPT ![idx] = Obs(cur, r.call, r.next, acc.m.now)],
   posts |-> acc.posts \o Tagged(r.posted, idx)]
TaskServe(acc, idx, cur, ev, extra) ==
  TaskAfter(acc, idx, cur,
            Cwsw_Sme__SME(tblTransitions, [acc.m EXCEPT !.currentstate[idx] = cur], cur,
                          [ev EXCEPT !.evData = idx], extra))
TaskButton(acc, idx, ev, extra) ==
  TaskServe(acc, idx, IF acc.m.currentstate[idx] = NULL THEN fp_stStart ELSE acc.m.currentstate[idx],
            ev, extra)

\* the buttons in the order the task's loop visits them: N-1 down to 0
RECURSIVE Descending(_)
Descending(n) == IF n = 0 THEN <<>> ELSE <<n - 1>> \o Descending(n - 1)

\* (variant that leaves the loop once the alarm has been disabled)
RECURSIVE RunButtonsBreak(_, _, _, _)
RunButtonsBreak(acc, order, ev, extra) ==
  IF order = <<>> \/ acc.m.tmrstate = kTmrState_Disabled THEN acc
  ELSE RunButtonsBreak(TaskButton(acc, Head(order), ev, extra), Tail(order), ev, extra)

\* the task's loop over the buttons in the given order
RECURSIVE RunButtons(_, _, _, _)
RunButtons(acc, order, ev, extra) ==
  IF order = <<>> THEN acc
  ELSE RunButtons(TaskButton(acc, Head(order), ev, extra), Tail(order), ev, extra)

Btn_tsk_ButtonRead(m, ev, extra) ==
  RunButtons([m |-> m, calls |-> [b \in Buttons |-> NoCall], posts |-> <<>>],
             Descending(NumButtons), ev, extra)

DebounceStates == {fp_stDebouncePress, fp_stDebounceRelease}

\* the debounce-visit observation after one call: reset on entry, counted on operate
\* (t0: clock at entry; steady: every operate cycle so far came one alarm period
\* after the call before it)
VisitAfter(v, c) ==
  IF c.state \in DebounceStates
    THEN IF c.phase = kStateOperational
           THEN [t0 |-> v.t0, cycles |-> v.cycles + 1, ones |-> v.ones + c.reads[1].bit,
                 steady |-> v.steady /\ c.at = v.t0 + v.cycles + 1]
         ELSE IF c.phase = kStateExit THEN v
         ELSE [t0 |-> c.at, cycles |-> 0, ones |-> 0, steady |-> TRUE]
  ELSE v
NoVisit == [t0 |-> 0, cycles |-> 0, ones |-> 0, steady |-> TRUE]

\* ---- the system ---------------------------------------------------------
Zero == [b \in Buttons |-> 0]
NoProbe == [fn |-> "none"]

InitMem ==
  /\ now = 0
  /\ tmrstate = kTmrState_Enabled
  /\ currentstate = [b \in Buttons |-> NULL]
  /\ start_statephase = [b \in Buttons |-> kStateUninit]
  /\ start_evId = [b \in Buttons |-> ev0]
  /\ released_statephase = [b \in Buttons |-> kStateUninit]
  /\ debounce_statephase = [b \in Buttons |-> kStateUninit]
  /\ tmrMyStateTimer = Zero
  /\ debounce_evId = [b \in Buttons |-> ev0]
  /\ debounce_reason3 = [b \in Buttons |-> kReasonNone]
  /\ read_bits = Zero
  /\ pressed_statephase = [b \in Buttons |-> kStateUninit]
  /\ tmrPressedStateTimer = Zero
  /\ pressed_evId = [b \in Buttons |-> ev0]
  /\ pressed_reason2 = Zero
  /\ pressed_reason3 = [b \in Buttons |-> kReasonNone]
  /\ stuck_statephase = [b \in Buttons |-> kStateUninit]
  /\ stuck_evId = [b \in Buttons |-> ev0]
  /\ buttoninputbits = Zero
  /\ buttonstatus = 0
  /\ calls = [b \in Buttons |-> NoCall]
  /\ posts = <<>>
  /\ visit = [b \in Buttons |-> NoVisit]
  /\ uiCount = 0

Init == InitMem /\ probe = NoProbe

\* the memory variables take the values of record m
SetMem(m) ==
  /\ now' = m.now
  /\ tmrstate' = m.tmrstate
  /\ currentstate' = m.currentstate
  /\ start_statephase' = m.start_statephase
  /\ start_evId' = m.start_evId
  /\ released_statephase' = m.released_statephase
  /\ debounce_statephase' = m.debounce_statephase
  /\ tmrMyStateTimer' = m.tmrMyStateTimer
  /\ debounce_evId' = m.debounce_evId
  /\ debounce_reason3' = m.debounce_reason3
  /\ read_bits' = m.read_bits
  /\ pressed_statephase' = m.pressed_statephase
  /\ tmrPressedStateTimer' = m.tmrPressedStateTimer
  /\ pressed_evId' = m.pressed_evId
  /\ pressed_reason2' = m.pressed_reason2
  /\ pressed_reason3' = m.pressed_reason3
  /\ stuck_statephase' = m.stuck_statephase
  /\ stuck_evId' = m.stuck_evId
  /\ buttoninputbits' = m.buttoninputbits
  /\ buttonstatus' = m.buttonstatus

\* the event the alarm delivers to the task
TickEvent == [evId |-> evButton_Task, evData |-> 0]

\* (variant in which a failed post stops the alarm)
AfterPostsBackpressure(m, ok) ==
  IF \E i \in DOMAIN ok : ~ok[i] THEN [m EXCEPT !.tmrstate = kTmrState_Disabled] ELSE m
\* what the results of the run's PostEvent calls (ok[i] for the i-th call) do to the
\* module's variables: the notifier casts each result to void, so nothing
AfterPosts(m, ok) == m

\* one alarm period elapses and the alarm launches the task; each PostEvent call of
\* the run succeeds or fails (queue full) as the queue decides
\* (r: what the task's run left)
TickWith(r) ==
  /\ calls' = r.calls
  /\ visit' = [b \in Buttons |-> VisitAfter(visit[b], r.calls[b])]
  /\ \E ok \in [1 .. Len(r.posts) -> BOOLEAN] :
       /\ SetMem(AfterPosts(r.m, ok))
       /\ posts' = [i \in 1 .. Len(r.posts) |->
                      [evId |-> r.posts[i].evId, evData |-> r.posts[i].evData,
                       button |-> r.posts[i].button, ok |-> ok[i]]]
Tick ==
  /\ tmrstate = kTmrState_Enabled
  /\ now < MaxClock
  /\ TickWith(Btn_tsk_ButtonRead([Mem EXCEPT !.now = now + 1], TickEvent, 0))
  /\ UNCHANGED <<uiCount, probe>>

\* time passes while the alarm is disabled
Idle ==
  /\ tmrstate = kTmrState_Disabled
  /\ now < MaxClock
  /\ now' = now + 1
  /\ UNCHANGED <<tmrstate, currentstate, start_statephase, start_evId, released_statephase,
                 debounce_statephase, tmrMyStateTimer, debounce_evId, debounce_reason3, read_bits,
                 pressed_statephase, tmrPressedStateTimer, pressed_evId, pressed_reason2,
                 pressed_reason3, stuck_statephase, stuck_evId, buttoninputbits, buttonstatus>>
  /\ UNCHANGED <<obsVars, uiCount, probe>>

\* the alarm is re-armed from outside
Rearm ==
  /\ tmrstate = kTmrState_Disabled
  /\ tmrstate' = kTmrState_Enabled
  /\ UNCHANGED <<now, currentstate, start_statephase, start_evId, released_statephase,
                 debounce_statephase, tmrMyStateTimer, debounce_evId, debounce_reason3, read_bits,
                 pressed_statephase, tmrPressedStateTimer, pressed_evId, pressed_reason2,
                 pressed_reason3, stuck_statephase, stuck_evId, buttoninputbits, buttonstatus>>
  /\ UNCHANGED <<obsVars, uiCount, probe>>

\* the bit patterns the UI callbacks queue (12 bits each, read from the low end):
\* cleanpatterna is 0xFF9, cleanpatternb its bitwise complement (masked to 12 bits on use)
cleanpatterna == 4089
cleanpatternb == (0 - cleanpatterna) - 1

\* the stream after a UI callback queues a pattern: added 12 bits up when bits are
\* pending, stored as is otherwise
LoadPattern(bits, pat) == IF bits # 0 THEN bits + pat * 4096 ELSE pat

UiUnchanged ==
  /\ UNCHANGED <<now, tmrstate, currentstate, start_statephase, start_evId, released_statephase,
                 debounce_statephase, tmrMyStateTimer, debounce_evId, debounce_reason3, read_bits,
                 pressed_statephase, tmrPressedStateTimer, pressed_evId, pressed_reason2,
                 pressed_reason3, stuck_statephase, stuck_evId>>
  /\ UNCHANGED <<obsVars, probe>>

cbUiButtonPressed(idx) ==
  /\ uiCount < MaxUiEvents
  /\ uiCount' = uiCount + 1
  /\ buttoninputbits' = [buttoninputbits EXCEPT ![idx] = LoadPattern(@, cleanpatterna)]
  /\ buttonstatus' = BIT_SET(buttonstatus, idx)
  /\ UiUnchanged

cbUiButtonReleased(idx) ==
  /\ uiCount < MaxUiEvents
  /\ uiCount' = uiCount + 1
  /\ buttoninputbits' = [buttoninputbits EXCEPT ![idx] = LoadPattern(@, cleanpatternb % 4096)]
  /\ buttonstatus' = BIT_CLR(buttonstatus, idx)
  /\ UiUnchanged

\* the UI button's signals: a button that is up can be pressed, one that is down released
Pressed == \E idx \in Buttons : (~BIT_TEST(buttonstatus, idx)) /\ cbUiButtonPressed(idx)
Released == \E idx \in Buttons : BIT_TEST(buttonstatus, idx) /\ cbUiButtonReleased(idx)

Next == Tick \/ Idle \/ Rearm \/ Pressed \/ Released

Spec == Init /\ [][Next]_vars


\* ---- the notifier applied on its own ------------------------------------
\* largest reason code handed to the notifier (kReasonButtonUnstuck is 4)
MaxProbeReason == 6
ProbeEvIds == {ev0, evButton_Task, evBntPressed, evBtnReleased, evButton_BtnStuck,
               evButton_BtnUnstuck, "evOther"}

NotifyInit ==
  /\ InitMem
  /\ probe \in {[fn |-> "NotifyBtnStateChg", ev |-> [evId |-> e, evData |-> d], extra |-> x,
                 done |-> FALSE, out |-> <<>>] :
                e \in ProbeEvIds, d \in Buttons, x \in 0 .. MaxProbeReason}

ApplyNotify ==
  /\ ~probe.done
  /\ probe' = [probe EXCEPT !.done = TRUE, !.out = NotifyBtnStateChg(probe.ev, probe.extra)]
  /\ UNCHANGED <<memVars, obsVars, uiCount>>

NotifyNext == ApplyNotify

SpecNotify == NotifyInit /\ [][NotifyNext]_vars

\* ---- the example scenario -----------------------------------------------
\* bits 0,0,0,1,1,1,1,1,1,1,1 in reading order (0x7F8); the button's status flag is
\* clear, so every bit read after them is 0
ExampleBits == 255 * 8

\* the input source is handed the example's bits for button 0
LoadExample ==
  /\ uiCount = 0
  /\ uiCount' = 1
  /\ buttoninputbits' = [buttoninputbits EXCEPT ![0] = ExampleBits]
  /\ UNCHANGED buttonstatus
  /\ UiUnchanged

ExampleNext == Tick \/ LoadExample

SpecExample == Init /\ [][ExampleNext]_vars

\* ---- one state function called on its own --------------------------------
\* largest phase-marker value a call starts from (kStateFinished is 3; larger values
\* stand for a corrupted marker)
MaxPhase == 5
\* the clock at the call
CallNow == 8 + 2
\* accumulator values of the general sweep, and of the accumulator sweep
AccSample == {0, 1, 127, 128, 255}
AccAll == 0 .. 255

\* the inputs of a call: handler h, button b, phase marker p of every state function
\* for b, accumulator acc of b, stored stream s of every button, status bitmap st,
\* whether b's timers have expired, and which of the two pointers is null
CallInputs ==
  {[h |-> h, b |-> b, p |-> p, acc |-> a, s |-> s, st |-> st, expired |-> x, ptr |-> q] :
     h \in States, b \in Buttons, p \in 0 .. MaxPhase, a \in AccSample, s \in 0 .. 2,
     st \in {0, Pow2(NumButtons) - 1}, x \in BOOLEAN, q \in {"ok", "nullev", "nullextra"}}
  \cup
  {[h |-> h, b |-> b, p |-> p, acc |-> a, s |-> s, st |-> st, expired |-> x, ptr |-> "ok"] :
     h \in DebounceStates, b \in Buttons, p \in {kStateUninit, kStateOperational, kStateFinished},
     a \in AccAll, s \in 0 .. 1, st \in {0, Pow2(NumButtons) - 1}, x \in BOOLEAN}

\* the memory a call with inputs i starts from; the other buttons hold values of their
\* own (phase Operational, accumulator 5) so that a change to them shows
CallTimer(i) == IF i.expired THEN CallNow ELSE CallNow + 1
CallMem(i) ==
  [now |-> CallNow, tmrstate |-> kTmrState_Enabled,
   currentstate |-> [c \in Buttons |-> IF c = i.b THEN i.h ELSE fp_stButtonReleased],
   start_statephase |-> [c \in Buttons |-> IF c = i.b THEN i.p ELSE kStateOperational],
   start_evId |-> [c \in Buttons |-> ev0],
   released_statephase |-> [c \in Buttons |-> IF c = i.b THEN i.p ELSE kStateOperational],
   debounce_statephase |-> [c \in Buttons |-> IF c = i.b THEN i.p ELSE kStateOperational],
   tmrMyStateTimer |-> [c \in Buttons |-> CallTimer(i)],
   debounce_evId |-> [c \in Buttons |-> ev0],
   debounce_reason3 |-> [c \in Buttons |-> kReasonNone],
   read_bits |-> [c \in Buttons |-> IF c = i.b THEN i.acc ELSE 5],
   pressed_statephase |-> [c \in Buttons |-> IF c = i.b THEN i.p ELSE kStateOperational],
   tmrPressedStateTimer |-> [c \in Buttons |-> CallTimer(i)],
   pressed_evId |-> [c \in Buttons |-> ev0],
   pressed_reason2 |-> [c \in Buttons |-> c],
   pressed_reason3 |-> [c \in Buttons |-> kReasonNone],
   stuck_statephase |-> [c \in Buttons |-> IF c = i.b THEN i.p ELSE kStateOperational],
   stuck_evId |-> [c \in Buttons |-> ev0],
   buttoninputbits |-> [c \in Buttons |-> i.s],
   buttonstatus |-> i.st]

\* the two arguments of the call
CallEv(i) == IF i.ptr = "nullev" THEN NullEv ELSE [evId |-> evButton_Task, evData |-> i.b]
CallExtra(i) == IF i.ptr = "nullextra" THEN NullExtra ELSE 0

\* the memory variables hold the values of record m
MemIs(m) ==
  /\ now = m.now
  /\ tmrstate = m.tmrstate
  /\ currentstate = m.currentstate
  /\ start_statephase = m.start_statephase
  /\ start_evId = m.start_evId
  /\ released_statephase = m.released_statephase
  /\ debounce_statephase = m.debounce_statephase
  /\ tmrMyStateTimer = m.tmrMyStateTimer
  /\ debounce_evId = m.debounce_evId
  /\ debounce_reason3 = m.debounce_reason3
  /\ read_bits = m.read_bits
  /\ pressed_statephase = m.pressed_statephase
  /\ tmrPressedStateTimer = m.tmrPressedStateTimer
  /\ pressed_evId = m.pressed_evId
  /\ pressed_reason2 = m.pressed_reason2
  /\ pressed_reason3 = m.pressed_reason3
  /\ stuck_statephase = m.stuck_statephase
  /\ stuck_evId = m.stuck_evId
  /\ buttoninputbits = m.buttoninputbits
  /\ buttonstatus = m.buttonstatus

CallInit ==
  /\ \E i \in CallInputs :
       /\ MemIs(CallMem(i))
       /\ probe = [fn |-> "CallState", in |-> i, done |-> FALSE,
                   rc |-> 0, phase |-> NoPhase, reads |-> <<>>, ev |-> NullEv, extra |-> NullExtra]
  /\ calls = [b \in Buttons |-> NoCall]
  /\ posts = <<>>
  /\ visit = [b \in Buttons |-> NoVisit]
  /\ uiCount = 0

\* (r: what the call left)
CallDone(r) ==
  /\ SetMem(r.m)
  /\ probe' = [probe EXCEPT !.done = TRUE, !.rc = r.rc, !.phase = r.phase, !.reads = r.reads,
                            !.ev = r.ev, !.extra = r.extra]
CallOnce ==
  /\ ~probe.done
  /\ CallDone(CallState(probe.in.h, Mem, CallEv(probe.in), CallExtra(probe.in)))
  /\ UNCHANGED <<obsVars, uiCount>>

CallNext == CallOnce

SpecCall == CallInit /\ [][CallNext]_vars

\* ---- properties ---------------------------------------------------------
\* a step in which the alarm launches the task
TickStep == tmrstate = kTmrState_Enabled /\ now' = now + 1
\* the events the latest task run handed to PostEvent while serving button b
PostsOf(b) == SelectSeq(posts, LAMBDA p : p.button = b)
\* the latest call for button b was made on handler st in the given phase
InEntry(c) == c.phase \notin {kStateOperational, kStateExit}

\* C1: a debounce visit whose operate cycles all read the same bit b, one alarm period
\* apart, leaves by the 8th operate cycle (the 7th for b=1, the 8th for b=0) with
\* reason Debounced and event Pressed for b=1, Released for b=0, never with Timeout.
ConstantRun(b) == visit[b].cycles >= 1 /\ visit[b].steady /\ visit[b].ones \in {0, visit[b].cycles}
C2_DebounceTimeout ==
  \A b \in Buttons :
    LET c == calls[b]
    IN /\ (c.state \in DebounceStates /\ c.phase = kStateOperational
             /\ read_bits[b] \notin {0, 255} /\ tmrMyStateTimer[b] - c.at <= 0) =>
            (c.rc = kStateExit /\ debounce_reason3[b] = kReasonTimeout)
       /\ (c.state \in DebounceStates /\ c.phase = kStateExit /\ c.extra = kReasonTimeout) =>
            c.next = fp_stButtonReleased

\* C3: in ButtonPressed a 1 bit read with the stuck timer expired leads to exit with
\* Timeout; that exit moves the button to ButtonStuck and hands exactly one ButtonStuck
\* event to the queue; no other call of the visit, and no call in ButtonStuck before its
\* exit, posts anything.
C3_StuckDetection ==
  \A b \in Buttons :
    LET c == calls[b]
    IN /\ (c.state = fp_stButtonPressed /\ c.phase = kStateOperational
             /\ c.reads[1].bit = 1 /\ tmrPressedStateTimer[b] - c.at <= 0) =>
            (c.rc = kStateExit /\ pressed_reason3[b] = kReasonTimeout)
       /\ (c.state = fp_stButtonPressed /\ c.phase = kStateExit /\ c.extra = kReasonTimeout) =>
            /\ c.next = fp_stButtonStuck
            /\ Len(PostsOf(b)) = 1
            /\ PostsOf(b)[1].evId = evButton_BtnStuck
       /\ (c.state = fp_stButtonPressed /\ ~(c.phase = kStateExit /\ c.extra = kReasonTimeout)) =>
            PostsOf(b) = <<>>
       /\ (c.state = fp_stButtonStuck /\ c.phase # kStateExit) => PostsOf(b) = <<>>
C3_Witness ==
  \E b \in Buttons :
    /\ calls[b].state = fp_stButtonPressed /\ calls[b].phase = kStateExit
    /\ calls[b].extra = kReasonTimeout /\ currentstate[b] = fp_stButtonStuck
    /\ Len(PostsOf(b)) = 1

\* C4: on every visit to ButtonStuck the entry call is followed by operate cycles; each
\* operate cycle reads the button's own bit, stays on 1 and posts nothing, and on the
\* first 0 leaves; the exit moves the button to ButtonReleased with exactly one
\* ButtonUnstuck event.
C4_UnstuckRecovery ==
  \A b \in Buttons :
    LET c == calls[b]
    IN /\ (c.state = fp_stButtonStuck /\ InEntry(c)) => c.rc = kStateOperational
       /\ (c.state = fp_stButtonStuck /\ c.phase = kStateOperational) =>
            /\ c.reads[1].src = b
            /\ (c.reads[1].bit = 0) <=> (c.rc = kStateExit)
       /\ (c.state = fp_stButtonStuck /\ c.phase = kStateExit) =>
            /\ c.next = fp_stButtonReleased
            /\ Len(PostsOf(b)) = 1
            /\ PostsOf(b)[1].evId = evButton_BtnUnstuck
       /\ (c.state = fp_stButtonStuck /\ c.phase # kStateExit) => PostsOf(b) = <<>>

\* C5: serving button i reads bits only from button i's own stream (so it neither
\* consumes another button's input nor decides on it).
C5_Independence ==
  \A b \in Buttons : \A i \in 1 .. Len(calls[b].reads) : calls[b].reads[i].src = b

\* C6: every event posted while serving button k carries k as its button index.
C6_EventCarriesButton ==
  \A i \in 1 .. Len(posts) : posts[i].evData = posts[i].button

\* C7: on the tick after the alarm was disabled and re-armed every button is served in
\* the state last persisted for it (none is sent back to Start), and a step that is not
\* a tick changes no phase marker, accumulator or timer.
AlarmWasDisabled == \E b \in Buttons : calls[b].state # NULL /\ calls[b].next = NULL
C7_Restart ==
  [][ /\ (TickStep /\ AlarmWasDisabled) => \A b \in Buttons : calls'[b].state = currentstate[b]
      /\ (~TickStep) => UNCHANGED <<start_statephase, released_statephase, debounce_statephase,
                                    pressed_statephase, stuck_statephase, read_bits,
                                    tmrMyStateTimer, tmrPressedStateTimer>> ]_vars

One(id, d) == <<[evId |-> id, evData |-> d]>>
C9_NotifierMapping ==
  probe.done =>
    LET id == probe.ev.evId
        d == probe.ev.evData
        x == probe.extra
    IN /\ (x = kReasonDebounced /\ id = evBntPressed) => probe.out = One(evBntPressed, d)
       /\ (x = kReasonDebounced /\ id = evBtnReleased) => probe.out = One(evBtnReleased, d)
       /\ (x = kReasonDebounced /\ id \notin {evBntPressed, evBtnReleased}) => probe.out = <<>>
       /\ (x = kReasonTimeout) => probe.out = One(evButton_BtnStuck, d)
       /\ (x = kReasonButtonUnstuck) => probe.out = One(evButton_BtnUnstuck, d)
       /\ (x \notin {kReasonDebounced, kReasonTimeout, kReasonButtonUnstuck}) => probe.out = <<>>
C9_Witness ==
  /\ probe.done /\ probe.extra = kReasonDebounced /\ probe.ev.evId = evButton_Task
  /\ probe.out = <<>>

\* C10: with the example bits loaded for button 0, the button stays in ButtonReleased
\* while the three leading 0s are read, leaves on the first 1 with TwitchNoted to
\* DebouncePress, its accumulator goes 1,3,7,0x0F,0x1F,0x3F,0x7F,0xFF over the next seven
\* 1 bits, it exits Debounced/Pressed to ButtonPressed with exactly one Pressed event, and
\* the first 0 read in ButtonPressed takes it to DebounceRelease with TwitchNoted.
\* (the bits still stored tell how far the reading has got)
C10_Example ==
  LET c == calls[0]
      s == buttoninputbits[0]
  IN /\ (s \in {ExampleBits, ExampleBits \div 2, ExampleBits \div 4, ExampleBits \div 8}) =>
        /\ currentstate[0] \in {NULL, fp_stStart, fp_stButtonReleased}
        /\ released_statephase[0] \in {kStateUninit, kStateOperational}
     /\ (c.state = fp_stButtonReleased /\ c.phase = kStateOperational /\ uiCount = 1
           /\ s \in {ExampleBits \div 2, ExampleBits \div 4, ExampleBits \div 8}) =>
          (c.reads = Read(0, 0) /\ c.rc = kStateOperational)
     /\ (c.state = fp_stButtonReleased /\ c.phase = kStateOperational /\ s = 127) =>
          (c.reads = Read(0, 1) /\ c.rc = kStateExit)
     /\ (c.state = fp_stButtonReleased /\ c.phase = kStateExit) =>
          (s = 127 /\ c.extra = kReasonTwitchNoted /\ c.next = fp_stDebouncePress)
     /\ (c.state = fp_stButtonReleased) => PostsOf(0) = <<>>
     /\ (c.state = fp_stDebouncePress /\ InEntry(c)) => (s = 127 /\ read_bits[0] = 1)
     /\ (c.state = fp_stDebouncePress /\ c.phase = kStateOperational) =>
          /\ <<s, read_bits[0]>> \in {<<63, 3>>, <<31, 7>>, <<15, 15>>, <<7, 31>>,
                                      <<3, 63>>, <<1, 127>>, <<0, 255>>}
          /\ c.reads = Read(0, 1)
          /\ (c.rc = kStateExit) <=> (read_bits[0] = 255)
     /\ (c.state = fp_stDebouncePress /\ c.phase # kStateExit) => PostsOf(0) = <<>>
     /\ (c.state = fp_stDebouncePress /\ c.phase = kStateExit) =>
          /\ visit[0].cycles = 7
          /\ c.ev.evId = evBntPressed /\ c.extra = kReasonDebounced
          /\ c.next = fp_stButtonPressed
          /\ Len(posts) = 1 /\ posts[1].evId = evBntPressed /\ posts[1].evData = 0
     /\ (c.state = fp_stButtonPressed /\ c.phase = kStateOperational) =>
          (c.reads = Read(0, 0) /\ c.rc = kStateExit)
     /\ (c.state = fp_stButtonPressed /\ c.phase = kStateExit) =>
          (c.extra = kReasonTwitchNoted /\ c.next = fp_stDebounceRelease)
     /\ (c.state = fp_stButtonPressed) => PostsOf(0) = <<>>
C10_Witness ==
  /\ uiCount = 1 /\ buttoninputbits[0] = 0
  /\ calls[0].state = fp_stButtonPressed /\ calls[0].phase = kStateExit
  /\ currentstate[0] = fp_stDebounceRelease


\* the phase marker handler h keeps for button b
PhaseMarker(h, b) ==
  CASE h = fp_stStart -> start_statephase[b]
    [] h = fp_stButtonReleased -> released_statephase[b]
    [] h \in DebounceStates -> debounce_statephase[b]
    [] h = fp_stButtonPressed -> pressed_statephase[b]
    [] h = fp_stButtonStuck -> stuck_statephase[b]
\* a call with both pointers valid has been made
Called == probe.done /\ probe.in.ptr = "ok"
EntryPhase(p) == p \notin {kStateOperational, kStateExit}

\* C11: a call of any of the six state functions that finds the button's phase marker at
\* a value other than Operational or Exit (Uninit, Finished, or larger) reads no bit,
\* returns without writing the exit triple, and leaves the marker at Operational.
C11_UnexpectedPhase ==
  (Called /\ EntryPhase(probe.in.p)) =>
    /\ PhaseMarker(probe.in.h, probe.in.b) = kStateOperational
    /\ probe.reads = <<>>
    /\ probe.ev = CallEv(probe.in) /\ probe.extra = CallExtra(probe.in)

\* C12: a call of any of the six state functions with a null event pointer or a null
\* guard-output pointer returns 0 and leaves every variable as it was: no phase marker,
\* accumulator, timer, saved event id or reason changes, no bit is read, nothing is posted.
C12_NullGuard ==
  (probe.done /\ probe.in.ptr # "ok") =>
    /\ probe.rc = 0
    /\ Mem = CallMem(probe.in)
    /\ probe.reads = <<>>
    /\ posts = <<>>
C12_Witness ==
  /\ probe.done /\ probe.in.ptr = "nullextra" /\ probe.in.h = fp_stDebouncePress
  /\ probe.in.p = kStateOperational /\ probe.rc = 0

\* C13: every call of a state function does exactly one of entry, operate step or exit,
\* and reads one bit in an operate step of the five states other than Start, none
\* otherwise; a read removes at most one bit of one stream.
StreamsAfter(i, reads) ==
  [c \in Buttons |-> IF reads # <<>> /\ reads[1].src = c THEN i.s \div 2 ELSE i.s]
C13_OneStepOneBit ==
  Called =>
    LET i == probe.in
    IN /\ probe.phase = i.p
       /\ Len(probe.reads) = (IF i.p = kStateOperational /\ i.h # fp_stStart THEN 1 ELSE 0)
       /\ buttoninputbits = StreamsAfter(i, probe.reads)
       /\ (i.p # kStateExit) => (probe.ev = CallEv(i) /\ probe.extra = CallExtra(i))
       /\ (i.p # kStateOperational) => read_bits[i.b] \in {i.acc, DebounceSeed}
C13_Witness ==
  /\ Called /\ probe.in.h = fp_stButtonPressed /\ probe.in.p = kStateOperational
  /\ probe.in.s = 2 /\ probe.reads = Read(probe.in.b, 0) /\ buttoninputbits[probe.in.b] = 1


\* C14: the outcome of the PostEvent calls has no influence on the state machine: the
\* per-button states, phase markers, accumulators, timers, streams and the alarm state
\* after a task run are those the run computes from the state before it, whichever of
\* its posts failed; and a run posts at most once per button, only for a button whose
\* state ran its exit step in this same run, so a post that failed earlier is not retried.
C14_PostFailureIgnored ==
  [][TickStep =>
       /\ Mem' = Btn_tsk_ButtonRead([Mem EXCEPT !.now = now + 1], TickEvent, 0).m
       /\ \A b \in Buttons :
            /\ Len(SelectSeq(posts', LAMBDA p : p.button = b)) <= 1
            /\ (SelectSeq(posts', LAMBDA p : p.button = b) # <<>>) => calls'[b].phase = kStateExit]_vars
\* a post of a press event failed and the button is in ButtonPressed all the same
C14_Witness ==
  \E i \in 1 .. Len(posts) :
    /\ ~posts[i].ok
    /\ posts[i].evId = evBntPressed
    /\ currentstate[posts[i].button] = fp_stButtonPressed

\* the buttons in the other order, 0 up to N-1, and a task run that visits them so
RECURSIVE Ascending(_)
Ascending(n) == IF n = 0 THEN <<>> ELSE Ascending(n - 1) \o <<n - 1>>
RunAscending(m, ev, extra) ==
  RunButtons([m |-> m, calls |-> [b \in Buttons |-> NoCall], posts |-> <<>>],
             Ascending(NumButtons), ev, extra)
PostSet(r) == {r.posts[i] : i \in DOMAIN r.posts}
SameOutcome(a, d) == a.m = d.m /\ PostSet(a) = PostSet(d)

\* C15: whenever the task is about to run, visiting the buttons in ascending order
\* leaves the same states, phase markers, accumulators, timers, input streams and alarm
\* state, and the same set of posted events, as visiting them in descending order.
C15_OrderIrrelevant ==
  (tmrstate = kTmrState_Enabled) =>
    SameOutcome(RunAscending([Mem EXCEPT !.now = now + 1], TickEvent, 0),
                Btn_tsk_ButtonRead([Mem EXCEPT !.now = now + 1], TickEvent, 0))

\* the debounce visit of button b just ended by recognizing event id
Recognized(b, st, id) ==
  /\ calls[b].state = st /\ calls[b].phase = kStateExit
  /\ calls[b].ev.evId = id /\ calls[b].extra = kReasonDebounced

MaxStream == 7
MaxReads == 4
ReadBase ==
  [h |-> fp_stStart, b |-> 0, p |-> kStateUninit, acc |-> 0, s |-> 0, st |-> 0,
   expired |-> FALSE, ptr |-> "ok"]
ReadInit ==
  /\ \E s \in [Buttons -> 0 .. MaxStream], st \in 0 .. Pow2(NumButtons) - 1 :
       /\ MemIs([CallMem(ReadBase) EXCEPT !.buttoninputbits = s, !.buttonstatus = st])
       /\ probe = [fn |-> "di_read_next_button_input_bit", n |-> 0, idx |-> 0, bit |-> 0,
                   s0 |-> s, pre |-> CallMem(ReadBase)]
  /\ calls = [b \in Buttons |-> NoCall]
  /\ posts = <<>>
  /\ visit = [b \in Buttons |-> NoVisit]
  /\ uiCount = 0
\* (r: what the call for button idx returned and left)
ReadDone(idx, r) ==
  /\ SetMem(r.m)
  /\ probe' = [probe EXCEPT !.n = @ + 1, !.idx = idx, !.bit = r.bit, !.pre = Mem]
ReadOnce ==
  /\ probe.n < MaxReads
  /\ \E idx \in Buttons : ReadDone(idx, di_read_next_button_input_bit(Mem, idx))
  /\ UNCHANGED <<obsVars, uiCount>>
ReadNext == ReadOnce
SpecRead == ReadInit /\ [][ReadNext]_vars

StatusBit(m, idx) == IF BIT_TEST(m.buttonstatus, idx) THEN 1 ELSE 0
\* C17: a call for a button whose stored stream is 0 returns that button's bit of the
\* status bitmap, leaves the stream at 0 and changes nothing else (no other button's
\* stream, not the bitmap); a call for a button whose stream is not 0 returns the lowest
\* stored bit and removes exactly that bit, changing nothing else.
C17_ReadAfterExhaustion ==
  (probe.n > 0) =>
    /\ (probe.pre.buttoninputbits[probe.idx] = 0) =>
         (probe.bit = StatusBit(probe.pre, probe.idx) /\ Mem = probe.pre)
    /\ (probe.pre.buttoninputbits[probe.idx] # 0) =>
         /\ probe.bit = probe.pre.buttoninputbits[probe.idx] % 2
         /\ Mem = [probe.pre EXCEPT !.buttoninputbits[probe.idx] = @ \div 2]
\* a stream that held bits has run out, and the call after that returned the status bit 1
\* while the other button still holds bits
C17_Witness ==
  /\ probe.n > 1 /\ probe.idx = 1 /\ probe.s0[1] # 0
  /\ probe.pre.buttoninputbits[1] = 0 /\ probe.bit = 1
  /\ buttoninputbits[0] # 0

\* C18: a call of a state function returns the button's phase marker as the call left
\* it: Operational after an entry call; Operational (the state stays) or Exit (an exit
\* condition fired) after an operate call; Finished after an exit call; and the event
\* and guard value handed in are overwritten by the exit call only.
C18_PhaseCycle ==
  Called =>
    /\ probe.rc = PhaseMarker(probe.in.h, probe.in.b)
    /\ EntryPhase(probe.in.p) => probe.rc = kStateOperational
    /\ (probe.in.p = kStateOperational) => probe.rc \in {kStateOperational, kStateExit}
    /\ (probe.in.p = kStateExit) => probe.rc = kStateFinished
    /\ (probe.in.p # kStateExit) =>
         (probe.ev = CallEv(probe.in) /\ probe.extra = CallExtra(probe.in))

\* the accumulator after shifting in the bit the call read
NewAcc(i, reads) == ((i.acc * 2) % 256) + reads[1].bit
\* what an operate call of a debounce state for button b left, given the new accumulator
\* value and whether the debounce timer had expired
OperateOutcome(b, acc, expired) ==
  /\ (acc = 0) =>
       /\ probe.rc = kStateExit
       /\ debounce_evId[b] = evBtnReleased /\ debounce_reason3[b] = kReasonDebounced
  /\ (acc = 255) =>
       /\ probe.rc = kStateExit
       /\ debounce_evId[b] = evBntPressed /\ debounce_reason3[b] = kReasonDebounced
  /\ (acc \notin {0, 255} /\ expired) =>
       /\ probe.rc = kStateExit
       /\ debounce_evId[b] = ev0 /\ debounce_reason3[b] = kReasonTimeout
  /\ (acc \notin {0, 255} /\ ~expired) =>
       /\ probe.rc = kStateOperational
       /\ debounce_evId[b] = ev0 /\ debounce_reason3[b] = kReasonNone

\* C19: an operate call of a debounce state tests the new accumulator value first: 0x00
\* sets Released/Debounced and 0xFF sets Pressed/Debounced, and the call returns Exit,
\* even when the debounce timer has expired; Timeout is set only when the value is
\* neither and the timer has expired, leaving the saved event id as it was; otherwise
\* the state stays and neither is touched. The saved event id is the one the entry call
\* was handed, and the exit call hands back the saved id and reason.
C19_DebouncePriority ==
  (Called /\ probe.in.h \in DebounceStates) =>
    /\ (probe.in.p = kStateOperational) =>
         OperateOutcome(probe.in.b, NewAcc(probe.in, probe.reads), probe.in.expired)
    /\ EntryPhase(probe.in.p) => debounce_evId[probe.in.b] = evButton_Task
    /\ (probe.in.p = kStateExit) => (probe.ev.evId = ev0 /\ probe.extra = kReasonNone)
\* the timer had expired and the accumulator reached 0xFF: the call exits Pressed
C19_Witness ==
  /\ Called /\ probe.in.h = fp_stDebounceRelease /\ probe.in.p = kStateOperational
  /\ probe.in.expired /\ probe.in.acc = 127 /\ read_bits[probe.in.b] = 255
  /\ probe.rc = kStateExit /\ debounce_evId[probe.in.b] = evBntPressed

\* C20: an entry call of a debounce state sets the button's accumulator to 1 whatever
\* it held; an operate call sets it to ((old * 2) mod 256) OR the bit read, a value in
\* 0..255 (bits shifted past bit 7 are gone); an exit call leaves it; and no call
\* touches another button's accumulator.
C20_AccumulatorArithmetic ==
  (Called /\ probe.in.h \in DebounceStates) =>
    /\ EntryPhase(probe.in.p) => read_bits[probe.in.b] = 1
    /\ (probe.in.p = kStateOperational) =>
         /\ read_bits[probe.in.b] = NewAcc(probe.in, probe.reads)
         /\ read_bits[probe.in.b] \in 0 .. 255
    /\ (probe.in.p = kStateExit) => read_bits[probe.in.b] = probe.in.acc
    /\ \A c \in Buttons \ {probe.in.b} : read_bits[c] = CallMem(probe.in).read_bits[c]
\* an accumulator with bit 7 set (200) was shifted and a 1 read: the bit is gone (145)
C20_Witness ==
  /\ Called /\ probe.in.h = fp_stDebouncePress /\ probe.in.p = kStateOperational
  /\ probe.in.acc = 200 /\ probe.reads = Read(probe.in.b, 1) /\ read_bits[probe.in.b] = 145

\* the stuck timer of button b had expired when the latest call for b was made
StuckTimerExpired(b) == tmrPressedStateTimer[b] - calls[b].at <= 0

\* C21: an operate call of ButtonPressed tests the bit before the timer: a 0 bit sets
\* TwitchNoted and ends the state even when the stuck timer has expired; Timeout is set
\* only on a 1 bit with the timer expired; a 1 bit with time left stays in ButtonPressed.
\* The exit call hands back one of the two reasons; TwitchNoted leads to DebounceRelease
\* and Timeout to ButtonStuck.
C21_PressedPriority ==
  \A b \in Buttons :
    (calls[b].state = fp_stButtonPressed) =>
      /\ (calls[b].phase = kStateOperational /\ calls[b].reads = Read(b, 0)) =>
           (calls[b].rc = kStateExit /\ pressed_reason3[b] = kReasonTwitchNoted)
      /\ (calls[b].phase = kStateOperational /\ calls[b].reads = Read(b, 1) /\ StuckTimerExpired(b)) =>
           (calls[b].rc = kStateExit /\ pressed_reason3[b] = kReasonTimeout)
      /\ (calls[b].phase = kStateOperational /\ calls[b].reads = Read(b, 1) /\ ~StuckTimerExpired(b)) =>
           (calls[b].rc = kStateOperational /\ calls[b].next = fp_stButtonPressed)
      /\ (calls[b].phase = kStateOperational) => calls[b].reads \in {Read(b, 0), Read(b, 1)}
      /\ (calls[b].phase = kStateExit) =>
           /\ calls[b].extra \in {kReasonTwitchNoted, kReasonTimeout}
           /\ (calls[b].extra = kReasonTwitchNoted) => calls[b].next = fp_stDebounceRelease
           /\ (calls[b].extra = kReasonTimeout) => calls[b].next = fp_stButtonStuck
\* a 0 bit was read in ButtonPressed after the stuck timer had expired
C21_Witness ==
  \E b \in Buttons :
    /\ calls[b].state = fp_stButtonPressed /\ calls[b].phase = kStateOperational
    /\ calls[b].reads = Read(b, 0) /\ StuckTimerExpired(b)
    /\ pressed_reason3[b] = kReasonTwitchNoted

\* C22: an operate call of ButtonReleased reads one bit of the button's stream; on a 0
\* bit the button stays in ButtonReleased; on a 1 bit the call ends the state, the exit
\* call hands back reason TwitchNoted with the event id it was handed and the button's
\* index, and the next state is DebouncePress; no call of ButtonReleased posts an event.
C22_ReleasedTwitch ==
  \A b \in Buttons :
    (calls[b].state = fp_stButtonReleased) =>
      /\ PostsOf(b) = <<>>
      /\ (calls[b].phase = kStateOperational) => calls[b].reads \in {Read(b, 0), Read(b, 1)}
      /\ (calls[b].phase = kStateOperational /\ calls[b].reads = Read(b, 0)) =>
           (calls[b].rc = kStateOperational /\ calls[b].next = fp_stButtonReleased)
      /\ (calls[b].phase = kStateOperational /\ calls[b].reads = Read(b, 1)) =>
           (calls[b].rc = kStateExit /\ calls[b].next = fp_stButtonReleased)
      /\ (calls[b].phase # kStateOperational) => calls[b].reads = <<>>
      /\ (calls[b].phase = kStateExit) =>
           /\ calls[b].extra = kReasonTwitchNoted
           /\ calls[b].ev = [evId |-> evButton_Task, evData |-> b]
           /\ calls[b].next = fp_stDebouncePress
\* button 1 has left ButtonReleased for DebouncePress on a twitch
C22_Witness ==
  /\ calls[1].state = fp_stButtonReleased /\ calls[1].phase = kStateExit
  /\ calls[1].extra = kReasonTwitchNoted /\ currentstate[1] = fp_stDebouncePress
  /\ posts = <<>>

TableInit ==
  /\ \E cur \in States, e \in ProbeEvIds, d \in Buttons, x \in 0 .. MaxProbeReason :
       /\ MemIs([CallMem(ReadBase) EXCEPT !.currentstate[d] = cur])
       /\ probe = [fn |-> "Cwsw_Sme__SME", cur |-> cur, ev |-> [evId |-> e, evData |-> d],
                   extra |-> x, done |-> FALSE, next |-> cur, posted |-> <<>>]
  /\ calls = [b \in Buttons |-> NoCall]
  /\ posts = <<>>
  /\ visit = [b \in Buttons |-> NoVisit]
  /\ uiCount = 0
\* (r: what the engine returned for the finished handler)
TableDone(r) ==
  /\ SetMem([r.m EXCEPT !.currentstate[probe.ev.evData] = r.next])
  /\ probe' = [probe EXCEPT !.done = TRUE, !.next = r.next, !.posted = r.posted]
TableOnce ==
  /\ ~probe.done
  /\ TableDone(SmeLookup(tblTransitions, probe.cur,
                         Ret(Mem, probe.ev, probe.extra, kStateFinished, kStateExit, <<>>)))
  /\ UNCHANGED <<obsVars, uiCount>>
TableNext == TableOnce
SpecTable == TableInit /\ [][TableNext]_vars

PostedIds == {probe.posted[i].evId : i \in DOMAIN probe.posted}
QuietTransitions ==
  {<<fp_stDebouncePress, fp_stButtonReleased>>, <<fp_stDebounceRelease, fp_stButtonPressed>>,
   <<fp_stButtonReleased, fp_stDebouncePress>>, <<fp_stButtonPressed, fp_stDebounceRelease>>,
   <<fp_stStart, fp_stButtonReleased>>}

\* C24: whatever exit triple a state hands back, a Pressed event is posted only on the
\* transition DebouncePress to ButtonPressed and a Released event only on the transition
\* DebounceRelease to ButtonReleased; the transitions DebouncePress to ButtonReleased,
\* DebounceRelease to ButtonPressed, ButtonReleased to DebouncePress, ButtonPressed to
\* DebounceRelease and Start to ButtonReleased post nothing.
C24_NotifyOnChangeOnly ==
  probe.done =>
    /\ (evBntPressed \in PostedIds) =>
         (probe.cur = fp_stDebouncePress /\ probe.next = fp_stButtonPressed)
    /\ (evBtnReleased \in PostedIds) =>
         (probe.cur = fp_stDebounceRelease /\ probe.next = fp_stButtonReleased)
    /\ (<<probe.cur, probe.next>> \in QuietTransitions) => probe.posted = <<>>
\* DebounceRelease has handed back Pressed/Debounced: ButtonPressed is next, nothing posted
C24_Witness ==
  /\ probe.done /\ probe.cur = fp_stDebounceRelease
  /\ probe.ev.evId = evBntPressed /\ probe.extra = kReasonDebounced
  /\ probe.next = fp_stButtonPressed /\ probe.posted = <<>>

\* the input of button b is 1 from now on: the button is held and the bits still
\* stored for it are all 1
OnesOnly(s) == \E k \in 0 .. 24 : s = Pow2(k) - 1
HeldInput(b) == BIT_TEST(buttonstatus, b) /\ OnesOnly(buttoninputbits[b])

\* C25: a button that is in ButtonStuck (after its Pressed and ButtonStuck events) and
\* whose input is 1 from then on stays in ButtonStuck at every task run, and no further
\* event is posted for it.
C25_StaysStuck ==
  [][\A b \in Buttons :
       (TickStep /\ currentstate[b] = fp_stButtonStuck /\ HeldInput(b)) =>
         /\ currentstate'[b] = fp_stButtonStuck
         /\ SelectSeq(posts', LAMBDA p : p.button = b) = <<>>]_vars

\* the state the task serves for button b: its persisted state, or Start when that is null
Served(b) == IF currentstate[b] = NULL THEN fp_stStart ELSE currentstate[b]

\* C26: a task run makes one SME call for each button, on the button's persisted state
\* (Start when null), and stores the state the call returned as the button's persisted
\* state; if the call returned null for any button the alarm is disabled by that run, and
\* the buttons after it in the loop are served and stored all the same. (One call: the
\* served state's phase marker moves by one step, or is set to Operational.)
C26_TaskRun ==
  [][TickStep =>
       /\ \A b \in Buttons :
            /\ calls'[b].state = Served(b)
            /\ calls'[b].at = now'
            /\ currentstate'[b] = calls'[b].next
            /\ (calls'[b].next = NULL) => tmrstate' = kTmrState_Disabled
            /\ \E h \in States :
                 /\ h = Served(b)
                 /\ PhaseMarker(h, b)' \in {kStateOperational, PhaseMarker(h, b) + 1}]_vars
\* the run got null for button 1, the first in the loop, and still served button 0 and
\* stored its state
C26_Witness ==
  /\ calls[1].state # NULL /\ calls[1].next = NULL /\ currentstate[1] = NULL
  /\ tmrstate = kTmrState_Disabled
  /\ calls[0].at = calls[1].at /\ calls[0].state = fp_stButtonReleased
  /\ calls[0].phase = kStateOperational /\ currentstate[0] = fp_stButtonReleased

\* C27: every exit triple a state function hands back in a reachable run matches a row
\* of the transition table: whenever a handler has signalled completion, the lookup
\* finds a row and the SME returns a state, not null.
C27_TableComplete ==
  \A b \in Buttons :
    (calls[b].state # NULL /\ StateCompleted(calls[b].rc)) =>
      /\ Cwsw_Sme_FindNextState(tblTransitions, calls[b].state, calls[b].ev, calls[b].extra) # 0
      /\ calls[b].next # NULL

\* ---- one arbitrary input stream --------------------------------------------
\* the input source is handed any stream of up to MaxStreamBits bits for one button,
\* with the button's status flag set or clear, before the first task run; the bits each
\* button's state machine has consumed are kept (the latest MaxHist of them)
MaxStreamBits == 10
MaxHist == 9
LastBits(h) == IF Len(h) <= MaxHist THEN h ELSE SubSeq(h, Len(h) - MaxHist + 1, Len(h))
BitsOf(reads) == [i \in 1 .. Len(reads) |-> reads[i].bit]
StreamInit == InitMem /\ probe = [fn |-> "stream", hist |-> [b \in Buttons |-> <<>>]]
LoadStream ==
  /\ uiCount = 0 /\ now = 0
  /\ uiCount' = 1
  /\ \E idx \in Buttons, s \in 0 .. Pow2(MaxStreamBits) - 1, held \in BOOLEAN :
       /\ buttoninputbits' = [buttoninputbits EXCEPT ![idx] = s]
       /\ buttonstatus' = IF held THEN BIT_SET(buttonstatus, idx) ELSE buttonstatus
  /\ UNCHANGED <<now, tmrstate, currentstate, start_statephase, start_evId, released_statephase,
                 debounce_statephase, tmrMyStateTimer, debounce_evId, debounce_reason3, read_bits,
                 pressed_statephase, tmrPressedStateTimer, pressed_evId, pressed_reason2,
                 pressed_reason3, stuck_statephase, stuck_evId>>
  /\ UNCHANGED <<obsVars, probe>>
\* (r: what the task's run left)
StreamTickWith(r) ==
  /\ TickWith(r)
  /\ probe' = [probe EXCEPT !.hist = [b \in Buttons |-> LastBits(@[b] \o BitsOf(r.calls[b].reads))]]
StreamTick ==
  /\ tmrstate = kTmrState_Enabled
  /\ now < MaxClock
  /\ StreamTickWith(Btn_tsk_ButtonRead([Mem EXCEPT !.now = now + 1], TickEvent, 0))
  /\ UNCHANGED uiCount
StreamNext == StreamTick \/ LoadStream
SpecStream == StreamInit /\ [][StreamNext]_vars

\* the latest n bits consumed for button b were all v (and there were n)
Recent(b, n, v) ==
  /\ Len(probe.hist[b]) >= n
  /\ \A i \in 1 .. n : probe.hist[b][Len(probe.hist[b]) - i + 1] = v

IdsFor(evs, d) ==
  LET mine == SelectSeq(evs, LAMBDA p : p.evData = d)
  IN [i \in 1 .. Len(mine) |-> mine[i].evId]
OrderInit == InitMem /\ probe = [fn |-> "posted", log |-> [d \in Buttons |-> <<>>]]
\* (r: what the task's run left)
OrderTickWith(r) ==
  /\ TickWith(r)
  /\ probe' = [probe EXCEPT !.log = [d \in Buttons |-> @[d] \o IdsFor(r.posts, d)]]
OrderTick ==
  /\ tmrstate = kTmrState_Enabled
  /\ now < MaxClock
  /\ OrderTickWith(Btn_tsk_ButtonRead([Mem EXCEPT !.now = now + 1], TickEvent, 0))
  /\ UNCHANGED uiCount
OrderNext == OrderTick \/ Idle \/ Rearm \/ Pressed \/ Released
SpecOrder == OrderInit /\ [][OrderNext]_vars

\* some event of log l strictly between positions i and j has an id in ids
Between(l, i, j, ids) == \E k \in (i + 1) .. (j - 1) : l[k] \in ids
\* position j of log l is preceded by a Pressed event, and a ButtonStuck event lies
\* between the most recent one and j
StuckSincePressed(l, j) ==
  \E p \in 1 .. (j - 1) :
    /\ l[p] = evBntPressed
    /\ ~Between(l, p, j, {evBntPressed})
    /\ Between(l, p, j, {evButton_BtnStuck})

\* C29: in the events posted for one button, two Pressed events have a Released or a
\* ButtonUnstuck event between them, two Released events have a Pressed event between
\* them, and a ButtonUnstuck event is preceded by a ButtonStuck event that follows the
\* most recent Pressed event.
C29_EventOrder ==
  \A d \in Buttons :
    \A j \in 1 .. Len(probe.log[d]) :
      /\ \A i \in 1 .. (j - 1) :
           /\ (probe.log[d][i] = evBntPressed /\ probe.log[d][j] = evBntPressed) =>
                Between(probe.log[d], i, j, {evBtnReleased, evButton_BtnUnstuck})
           /\ (probe.log[d][i] = evBtnReleased /\ probe.log[d][j] = evBtnReleased) =>
                Between(probe.log[d], i, j, {evBntPressed})
      /\ (probe.log[d][j] = evButton_BtnUnstuck) => StuckSincePressed(probe.log[d], j)

\* ---- the system with a count of quiet task runs ----------------------------
\* the whole system, its input either the UI callbacks or one stream of two runs; for
\* each button, the number of task runs in a row (up to SettleTicks) that began
\* with the button's input at 0: nothing stored for it and its status flag clear, so
\* that every bit supplied for it in the run was 0; runs go on until MaxSettleClock
MaxSettleClock == 75
SettleTicks == 16
QuietInput(k) == buttoninputbits[k] = 0 /\ ~BIT_TEST(buttonstatus, k)
QuietRuns(n, quiet) == IF quiet THEN (IF n < SettleTicks THEN n + 1 ELSE n) ELSE 0
SettleInit == InitMem /\ probe = [fn |-> "quiet", runs |-> [k \in Buttons |-> 0]]
\* (r: what the task's run left)
SettleTickWith(r) ==
  /\ TickWith(r)
  /\ probe' = [probe EXCEPT !.runs = [k \in Buttons |-> QuietRuns(@[k], QuietInput(k))]]
SettleTick ==
  /\ tmrstate = kTmrState_Enabled
  /\ now < MaxSettleClock
  /\ SettleTickWith(Btn_tsk_ButtonRead([Mem EXCEPT !.now = now + 1], TickEvent, 0))
  /\ UNCHANGED uiCount
\* the input source is handed, before the first task run, a stream for one button that
\* is a run of 1 bits, one 0 bit, and a second run of 1 bits (each run up to MaxRun long,
\* lowest bit first), the button's status flag clear; no UI callback follows
MaxRun == 10
RunStream(a, b) == (Pow2(a) - 1) + Pow2(a + 1) * (Pow2(b) - 1)
LoadRuns ==
  /\ uiCount = 0 /\ now = 0
  /\ uiCount' = MaxUiEvents
  /\ \E idx \in Buttons, a \in 0 .. MaxRun, b \in 0 .. MaxRun :
       buttoninputbits' = [buttoninputbits EXCEPT ![idx] = RunStream(a, b)]
  /\ UNCHANGED buttonstatus
  /\ UiUnchanged
SettleNext == SettleTick \/ Idle \/ Rearm \/ Pressed \/ Released \/ LoadRuns
SpecSettle == SettleInit /\ [][SettleNext]_vars

\* C30: a button whose input has been 0 for SettleTicks task runs in a row (longer than
\* any path through the debounce states) is in ButtonReleased, and the run posts no
\* event for it; as this holds for every later run too, it stays there.
C30_SettlesOnRelease ==
  \A k \in Buttons :
    (probe.runs[k] >= SettleTicks) =>
      (currentstate[k] = fp_stButtonReleased /\ PostsOf(k) = <<>>)

\* ---- dwell in the debounce states ------------------------------------------
\* the debounce timer of button b, as the call made at time t finds it, has expired
DebounceTimerExpired(b, t) == tmrMyStateTimer[b] - t <= 0

\* C31: in every task run, for every button served in a debounce state: an operate call
\* that finds the timer armed on entry expired ends the visit (returns Exit), whatever
\* the bit read, so a visit has at most DebounceTime operate cycles; the exit call
\* follows in the next run and the button leaves the debounce state; the entry call
\* arms the timer and returns Operational even when the timer of an earlier visit has
\* long expired, and neither the entry nor the exit call changes the saved reason.
C31_BoundedDwell ==
  [][TickStep =>
       \A b \in Buttons :
         (calls'[b].state \in DebounceStates) =>
           /\ (calls'[b].phase = kStateOperational) =>
                /\ DebounceTimerExpired(b, calls'[b].at) => calls'[b].rc = kStateExit
                /\ (calls'[b].rc = kStateOperational) => currentstate'[b] = calls'[b].state
                /\ visit'[b].cycles <= DebounceTime
                /\ tmrMyStateTimer'[b] = tmrMyStateTimer[b]
           /\ (calls'[b].phase = kStateExit) =>
                /\ calls[b].state = calls'[b].state
                /\ calls[b].phase = kStateOperational /\ calls[b].rc = kStateExit
                /\ calls'[b].rc = kStateFinished
                /\ calls'[b].extra = debounce_reason3[b]
                /\ debounce_reason3'[b] = debounce_reason3[b]
                /\ currentstate'[b] \notin DebounceStates
           /\ InEntry(calls'[b]) =>
                /\ calls'[b].rc = kStateOperational
                /\ currentstate'[b] = calls'[b].state
                /\ tmrMyStateTimer'[b] = calls'[b].at + DebounceTime
                /\ debounce_reason3'[b] = debounce_reason3[b]
                /\ calls'[b].reads = <<>>]_vars
\* a visit of button 0 to DebouncePress took DebounceTime operate cycles and the last
\* one, finding the timer expired and an accumulator neither 0x00 nor 0xFF, ended it
\* with reason Timeout
C31_Witness ==
  /\ calls[0].state = fp_stDebouncePress /\ calls[0].phase = kStateOperational
  /\ DebounceTimerExpired(0, calls[0].at) /\ visit[0].cycles = DebounceTime
  /\ read_bits[0] \notin {0, 255}
  /\ calls[0].rc = kStateExit /\ debounce_reason3[0] = kReasonTimeout
====
